---- MODULE Spec2Model ----
(***************************************************************************)
(* A model of process_document_function (src/main.py), the OCR pipeline of *)
(* the immigration document API: image acquisition, text recognition with  *)
(* its demo and fallback paths, keyword classification, pattern extraction *)
(* and result assembly.                                                    *)
(*                                                                         *)
(* Text is a sequence of one-character strings, so that lower-casing,      *)
(* substring tests, stripping, slicing and the regular expressions are     *)
(* computed character by character.  confidence is kept in tenths          *)
(* (9 stands for 0.9, 8 for 0.8, 5 for 0.5).                               *)
(***************************************************************************)
EXTENDS Integers, Sequences, FiniteSets, TLC

\* ------------------------------------------------------------ characters

UpperSeq == <<"A", "B", "C", "D", "E", "F", "G", "H", "I", "J", "K", "L", "M", "N", "O", "P", "Q", "R", "S", "T", "U", "V", "W", "X", "Y", "Z">>
LowerSeq == <<"a", "b", "c", "d", "e", "f", "g", "h", "i", "j", "k", "l", "m", "n", "o", "p", "q", "r", "s", "t", "u", "v", "w", "x", "y", "z">>
Upper == {UpperSeq[i] : i \in 1..26}
Lower == {LowerSeq[i] : i \in 1..26}
Letter == Upper \cup Lower
Digit == {"0", "1", "2", "3", "4", "5", "6", "7", "8", "9"}
\* \s of the patterns and the characters str.strip() removes
Space == {" ", "\n", "\t"}
\* \w of the patterns
WordChar == Letter \cup Digit \cup {"_"}
\* [a-zA-Z0-9._%+-] and [a-zA-Z0-9.-] of the email pattern
EmailLocalChar == Letter \cup Digit \cup {".", "_", "%", "+", "-"}
EmailDomainChar == Letter \cup Digit \cup {".", "-"}
DateSep == {"/", "-"}

\* ------------------------------------------------------------ str methods

LowerChar(c) ==
    IF c \in Upper THEN LowerSeq[CHOOSE i \in 1..26 : UpperSeq[i] = c] ELSE c

\* text.lower()
lower(t) == [i \in 1..Len(t) |-> LowerChar(t[i])]

\* word in text_lower
Contains(t, w) ==
    \E i \in 1..(Len(t) - Len(w) + 1) : \A j \in 1..Len(w) : t[i + j - 1] = w[j]

\* text.strip()
strip(t) ==
    IF \A i \in 1..Len(t) : t[i] \in Space THEN <<>>
    ELSE LET a == CHOOSE i \in 1..Len(t) :
                    t[i] \notin Space /\ \A j \in 1..(i - 1) : t[j] \in Space
             b == CHOOSE i \in 1..Len(t) :
                    t[i] \notin Space /\ \A j \in (i + 1)..Len(t) : t[j] \in Space
         IN  SubSeq(t, a, b)

\* s[:n]
Slice(s, n) == SubSeq(s, 1, IF Len(s) < n THEN Len(s) ELSE n)

FirstIn(S) == CHOOSE x \in S : \A y \in S : x <= y

\* ------------------------------------------------------------ re

InAt(t, k, C) == k \in 1..Len(t) /\ t[k] \in C
AllIn(t, a, b, C) == \A k \in a..b : InAt(t, k, C)
\* the number of consecutive characters of class C from position i on
Run(t, i, C) == FirstIn({k \in i..(Len(t) + 1) : ~InAt(t, k, C)}) - i
\* \b at the gap before position p
Boundary(t, p) == InAt(t, p - 1, WordChar) # InAt(t, p, WordChar)

\* Of the ways a pattern matches at one position (one repetition count per
\* quantifier, in pattern order) the backtracking matcher takes the first in
\* its search order: every quantifier here is greedy, so the greatest in
\* lexicographic order.
LexGE(m, n) ==
    m = n \/ \E k \in 1..Len(m) : m[k] > n[k] /\ \A j \in 1..(k - 1) : m[j] = n[j]
Greedy(M) == CHOOSE m \in M : \A n \in M : LexGE(m, n)
Total(m) == IF Len(m) = 2 THEN m[1] + m[2] ELSE m[1] + m[2] + m[3]

\* patterns["passport_number"] = \b[A-Z]{1,2}[0-9]{6,8}\b, used with re.IGNORECASE
PassportMatches(t, i) ==
    {m \in (1..2) \X (6..8) :
        /\ Boundary(t, i)
        /\ AllIn(t, i, i + m[1] - 1, Letter)
        /\ AllIn(t, i + m[1], i + m[1] + m[2] - 1, Digit)
        /\ Boundary(t, i + m[1] + m[2])}

\* patterns["visa_number"] = \b[A-Z0-9]{8,12}\b, case-insensitive by the spec
VisaMatches(t, i) ==
    {m \in {0} \X (8..12) :
        /\ Boundary(t, i)
        /\ AllIn(t, i, i + m[2] - 1, Letter \cup Digit)
        /\ Boundary(t, i + m[2])}

\* patterns["date"] = \b\d{1,2}[/-]\d{1,2}[/-]\d{4}\b
DateMatches(t, i) ==
    {m \in (1..2) \X (1..2) :
        /\ Boundary(t, i)
        /\ AllIn(t, i, i + m[1] - 1, Digit)
        /\ InAt(t, i + m[1], DateSep)
        /\ AllIn(t, i + m[1] + 1, i + m[1] + m[2], Digit)
        /\ InAt(t, i + m[1] + m[2] + 1, DateSep)
        /\ AllIn(t, i + m[1] + m[2] + 2, i + m[1] + m[2] + 5, Digit)
        /\ Boundary(t, i + m[1] + m[2] + 6)}

\* patterns["name"] = \b[A-Z][a-z]+\s+[A-Z][a-z]+\b; m = <<n1, ns, n2>> are the
\* lengths taken by [a-z]+, \s+ and [a-z]+
NameMatches(t, i) ==
    IF ~(Boundary(t, i) /\ InAt(t, i, Upper)) THEN {}
    ELSE UNION {UNION {{<<n1, ns, n2>> :
                          n2 \in {n \in 1..Run(t, i + n1 + ns + 2, Lower) :
                                    Boundary(t, i + n1 + ns + 2 + n)}} :
                       ns \in {n \in 1..Run(t, i + 1 + n1, Space) :
                                 InAt(t, i + 1 + n1 + n, Upper)}} :
                n1 \in 1..Run(t, i + 1, Lower)}

\* patterns["email"] = [a-zA-Z0-9._%+-]+@[a-zA-Z0-9.-]+\.[a-zA-Z]{2,};
\* m = <<n1, n2, n3>> are the lengths of the local part, the domain and the
\* final label
EmailMatches(t, i) ==
    IF ~InAt(t, i, EmailLocalChar) THEN {}
    ELSE UNION {UNION {{<<n1, n2, n3>> :
                          n3 \in 2..Run(t, i + n1 + n2 + 2, Letter)} :
                       n2 \in {n \in 1..Run(t, i + n1 + 1, EmailDomainChar) :
                                 InAt(t, i + n1 + 1 + n, {"."})}} :
                n1 \in {n \in 1..Run(t, i, EmailLocalChar) : InAt(t, i + n, {"@"})}}

\* The position just past the match of patterns[pat] that starts at i, 0 when
\* the pattern does not match there.  No pattern matches the empty string.
EndAt(pat, t, i) ==
    CASE pat = "passport_number" ->
            LET M == PassportMatches(t, i) IN IF M = {} THEN 0 ELSE i + Total(Greedy(M))
      [] pat = "visa_number" ->
            LET M == VisaMatches(t, i) IN IF M = {} THEN 0 ELSE i + Total(Greedy(M))
      [] pat = "date" ->
            LET M == DateMatches(t, i) IN IF M = {} THEN 0 ELSE i + Total(Greedy(M)) + 6
      [] pat = "name" ->
            LET M == NameMatches(t, i) IN IF M = {} THEN 0 ELSE i + Total(Greedy(M)) + 2
      [] pat = "email" ->
            LET M == EmailMatches(t, i) IN IF M = {} THEN 0 ELSE i + Total(Greedy(M)) + 2

\* re.search from position `from` on: <<start, end>> of the leftmost match,
\* <<>> for None
SearchFrom(pat, t, from) ==
    LET S == {i \in from..Len(t) : EndAt(pat, t, i) # 0}
    IN  IF S = {} THEN <<>> ELSE <<FirstIn(S), EndAt(pat, t, FirstIn(S))>>

\* re.search(patterns[pat], text)
search(pat, t) == SearchFrom(pat, t, 1)

\* match.group()
group(t, m) == SubSeq(t, m[1], m[2] - 1)

RECURSIVE FindAllFrom(_, _, _)
FindAllFrom(pat, t, from) ==
    LET m == SearchFrom(pat, t, from)
    IN  IF m = <<>> THEN <<>> ELSE <<group(t, m)>> \o FindAllFrom(pat, t, m[2])

\* re.findall(patterns[pat], text): the non-overlapping matches, left to right
findall(pat, t) == FindAllFrom(pat, t, 1)

\* ------------------------------------------------------------ inputs

\* the engine's output is at most MaxChunks pieces of Vocabulary joined by blanks
MaxChunks == 2
\* the long outputs exceed the transport cap by PadExtra filler characters
PadExtra == 1
\* datetime.now() is one of MaxClock instants
MaxClock == 2

\* text.strip()[:2000]
ExtractedTextCap == 2000

Vocabulary ==
    { <<"\n">>,
      <<"P", "A", "S", "S", "P", "O", "R", "T">>,
      <<"V", "i", "s", "a">>,
      <<"W", "o", "r", "k", " ", "P", "e", "r", "m", "i", "t">>,
      <<"L", "i", "c", "e", "n", "s", "e">>,
      <<"a", "b", "1", "2", "3", "4", "5", "6", "7">>,
      <<"0", "1", "/", "0", "1", "/", "1", "9", "9", "0", " ", "2", "-", "3", "-", "2", "0", "2", "0">>,
      <<"M", "a", "r", "y", " ", "A", "n", "n", " ", "L", "e", "e", " ", "R", "o", "y">> }

RECURSIVE ChunkTexts(_)
ChunkTexts(n) ==
    IF n = 0 THEN {<<>>}
    ELSE IF n = 1 THEN Vocabulary
    ELSE {a \o <<" ">> \o c : a \in ChunkTexts(n - 1), c \in Vocabulary}

SampleTexts ==
    { <<"R", "E", "P", "U", "B", "L", "I", "C", " ", "O", "F", " ", "I", "N", "D", "I", "A", " ", "P", "A", "S", "S", "P", "O", "R", "T", " ", "N", "a", "m", "e", ":", " ", "J", "O", "H", "N", " ", "D", "O", "E", " ", "P", "a", "s", "s", "p", "o", "r", "t", " ", "N", "o", ":", " ", "A", "1", "2", "3", "4", "5", "6", "7", " ", "D", "a", "t", "e", " ", "o", "f", " ", "B", "i", "r", "t", "h", ":", " ", "1", "5", "/", "0", "6", "/", "1", "9", "9", "0">>,
      <<"V", "I", "S", "A", " ", "E", "N", "T", "R", "Y", " ", "P", "E", "R", "M", "I", "T", " ", "A", "B", "C", "D", "1", "2", "3", "4", "5", "6", "7", "8">>,
      <<"M", "i", "s", "c", "e", "l", "l", "a", "n", "e", "o", "u", "s", " ", "d", "o", "c", "u", "m", "e", "n", "t", " ", "c", "o", "n", "t", "e", "n", "t">>,
      <<"T", "r", "a", "v", "e", "l", " ", "D", "o", "c", "u", "m", "e", "n", "t", " ", "1", "2", "3", "4", "5", "6", "7", "8">>,
      <<"i", "m", "m", "i", "g", "r", "a", "t", "i", "o", "n", " ", "e", "m", "p", "l", "o", "y", "m", "e", "n", "t">>,
      <<"M", "a", "r", "r", "i", "a", "g", "e", " ", "r", "e", "c", "o", "r", "d", " ", "o", "f", " ", "i", "d", "e", "n", "t", "i", "f", "i", "c", "a", "t", "i", "o", "n">>,
      <<"B", "i", "r", "t", "h", " ", "C", "e", "r", "t", "i", "f", "i", "c", "a", "t", "e", " ", "a", ".", "b", "@", "m", "a", "i", "l", ".", "c", "o", ".", "i", "n">>,
      <<"M", "a", "r", "y", " ", "A", "n", "n", " ", "L", "e", "e", " ", "R", "o", "y", " ", "J", "o", "h", "n", " ", "S", "m", "i", "t", "h", " ", "1", "/", "1", "/", "2", "0", "0", "0", " ", "2", "/", "2", "/", "2", "0", "0", "0", " ", "3", "/", "3", "/", "2", "0", "0", "0", " ", "4", "/", "4", "/", "2", "0", "0", "0">> }

Filler == [i \in 1..(ExtractedTextCap + PadExtra) |-> "#"]
LongTexts ==
    {Filler \o <<" ">> \o c :
        c \in { <<"V", "i", "s", "a">>, <<"a", "b", "1", "2", "3", "4", "5", "6", "7", " ", "P", "A", "S", "S", "P", "O", "R", "T">>, <<"0", "1", "/", "0", "1", "/", "1", "9", "9", "0", " ", "2", "-", "3", "-", "2", "0", "2", "0", " ", "M", "a", "r", "y", " ", "A", "n", "n">>, <<"\n">> }}

\* what pytesseract.image_to_string can return
EngineTexts == UNION {ChunkTexts(n) : n \in 0..MaxChunks} \cup SampleTexts \cup LongTexts
\* str(ocr_error) of what pytesseract.image_to_string can raise
EngineErrors == { <<"t", "e", "s", "s", "e", "r", "a", "c", "t", " ", "f", "a", "i", "l", "e", "d">>, <<"c", "a", "n", "n", "o", "t", " ", "r", "e", "a", "d", " ", "i", "m", "m", "i", "g", "r", "a", "t", "i", "o", "n", ".", "p", "n", "g">> }

\* the uploads: an RGB image, an image of another mode, an image of another
\* mode whose data is cut short (convert raises), a file that is no image
\* (Image.open raises)
ImageFiles == {"rgb", "palette", "truncated", "not_image"}
OpenError == <<"c", "a", "n", "n", "o", "t", " ", "i", "d", "e", "n", "t", "i", "f", "y", " ", "i", "m", "a", "g", "e", " ", "f", "i", "l", "e">>
ConvertError == <<"i", "m", "a", "g", "e", " ", "f", "i", "l", "e", " ", "i", "s", " ", "t", "r", "u", "n", "c", "a", "t", "e", "d">>

Clock == 1..MaxClock

\* ------------------------------------------------------------ state

VARIABLES
    TESSERACT_AVAILABLE,  \* module-level flag, set once at import
    pc,                   \* position of the call in process_document_function
    image_file,           \* the argument
    image,                \* mode of the opened image, "" before it is opened
    text, ocr_source, doc_type, confidence, structured_data,   \* locals
    result,               \* the returned dict, <<>> while the call runs
    calls,                \* the pytesseract.image_to_string calls of this request
    stages                \* the stages this request has executed

vars == <<TESSERACT_AVAILABLE, pc, image_file, image, text, ocr_source, doc_type,
          confidence, structured_data, result, calls, stages>>

Init ==
    /\ TESSERACT_AVAILABLE \in BOOLEAN
    /\ pc = "idle"
    /\ image_file = ""
    /\ image = ""
    /\ text = <<>>
    /\ ocr_source = ""
    /\ doc_type = ""
    /\ confidence = 0
    /\ structured_data = <<>>
    /\ result = <<>>
    /\ calls = <<>>
    /\ stages = <<>>

\* ------------------------------------------------------------ the call

\* result = process_document_function(uploaded_file)
Call ==
    /\ pc \in {"idle", "done"}
    /\ \E f \in ImageFiles : image_file' = f
    /\ pc' = "acquire"
    /\ image' = ""
    /\ text' = <<>>
    /\ ocr_source' = ""
    /\ doc_type' = ""
    /\ confidence' = 0
    /\ structured_data' = <<>>
    /\ result' = <<>>
    /\ calls' = <<>>
    /\ stages' = <<>>
    /\ UNCHANGED TESSERACT_AVAILABLE

\* Raise without the outer handler: the exception leaves the function and no
\* result is returned
Raise_Propagates(msg) ==
    /\ result' = <<>>
    /\ pc' = "done"

\* except Exception as e: return {"success": False, "error": ...}
Raise(msg) ==
    /\ result' = [success |-> FALSE, error |-> <<"P", "r", "o", "c", "e", "s", "s", "i", "n", "g", " ", "e", "r", "r", "o", "r", ":", " ">> \o msg]
    /\ pc' = "done"

\* Image.open(image_file); image.convert('RGB') when the mode is not RGB
AcquireImage ==
    /\ pc = "acquire"
    /\ stages' = Append(stages, "acquire")
    /\ IF image_file = "not_image"
         THEN Raise(OpenError) /\ UNCHANGED image
       ELSE IF image_file = "truncated"
         THEN Raise(ConvertError) /\ image' = "P"
       ELSE image' = "RGB" /\ pc' = "recognize" /\ UNCHANGED result
    /\ UNCHANGED <<TESSERACT_AVAILABLE, image_file, text, ocr_source, doc_type,
                   confidence, structured_data, calls>>

DemoText == <<"R", "E", "P", "U", "B", "L", "I", "C", " ", "O", "F", " ", "I", "N", "D", "I", "A", "\n", "P", "A", "S", "S", "P", "O", "R", "T", "\n", "N", "a", "m", "e", ":", " ", "S", "A", "M", "P", "L", "E", " ", "U", "S", "E", "R", "\n", "P", "a", "s", "s", "p", "o", "r", "t", " ", "N", "o", ":", " ", "A", "1", "2", "3", "4", "5", "6", "7", "\n", "D", "a", "t", "e", " ", "o", "f", " ", "B", "i", "r", "t", "h", ":", " ", "0", "1", "/", "0", "1", "/", "1", "9", "9", "0", "\n", "P", "l", "a", "c", "e", " ", "o", "f", " ", "B", "i", "r", "t", "h", ":", " ", "N", "E", "W", " ", "D", "E", "L", "H", "I", "\n", "D", "a", "t", "e", " ", "o", "f", " ", "I", "s", "s", "u", "e", ":", " ", "0", "1", "/", "0", "1", "/", "2", "0", "2", "0", "\n", "D", "a", "t", "e", " ", "o", "f", " ", "E", "x", "p", "i", "r", "y", ":", " ", "0", "1", "/", "0", "1", "/", "2", "0", "3", "0", "\n", "P", "l", "a", "c", "e", " ", "o", "f", " ", "I", "s", "s", "u", "e", ":", " ", "M", "U", "M", "B", "A", "I">>

\* f"OCR Error: {str(ocr_error)}. Using fallback processing."
FallbackText(msg) == <<"O", "C", "R", " ", "E", "r", "r", "o", "r", ":", " ">> \o msg \o <<".", " ", "U", "s", "i", "n", "g", " ", "f", "a", "l", "l", "b", "a", "c", "k", " ", "p", "r", "o", "c", "e", "s", "s", "i", "n", "g", ".">>

\* the outcome recorded for a call that returned t
Returned(t) == IF Len(strip(t)) = 0 THEN "empty" ELSE "text"

\* else: the mock text, no engine call
RecognizeDemo ==
    /\ pc = "recognize"
    /\ ~TESSERACT_AVAILABLE
    /\ stages' = Append(stages, "recognize")
    /\ text' = DemoText
    /\ ocr_source' = "demo"
    /\ pc' = "classify"
    /\ UNCHANGED <<TESSERACT_AVAILABLE, image_file, image, doc_type, confidence,
                   structured_data, result, calls>>

\* RecognizePrimary without the inner handler: an engine fault reaches the
\* outer handler
RecognizePrimary_HardFault ==
    /\ pc = "recognize"
    /\ TESSERACT_AVAILABLE
    /\ stages' = Append(stages, "recognize")
    /\ \/ \E t \in EngineTexts :
            /\ calls' = Append(calls, [lang |-> "eng+hin", outcome |-> Returned(t)])
            /\ text' = t
            /\ UNCHANGED result
            /\ IF Len(strip(t)) = 0
                 THEN pc' = "recognize_secondary" /\ UNCHANGED ocr_source
                 ELSE pc' = "classify" /\ ocr_source' = "tesseract"
       \/ \E e \in EngineErrors :
            /\ calls' = Append(calls, [lang |-> "eng+hin", outcome |-> "fault"])
            /\ result' = [success |-> FALSE, error |-> <<"P", "r", "o", "c", "e", "s", "s", "i", "n", "g", " ", "e", "r", "r", "o", "r", ":", " ">> \o e]
            /\ pc' = "done"
            /\ UNCHANGED <<text, ocr_source>>
    /\ UNCHANGED <<TESSERACT_AVAILABLE, image_file, image, doc_type, confidence,
                   structured_data>>

\* text = pytesseract.image_to_string(image, lang="eng+hin", config=config)
RecognizePrimary ==
    /\ pc = "recognize"
    /\ TESSERACT_AVAILABLE
    /\ stages' = Append(stages, "recognize")
    /\ \/ \E t \in EngineTexts :
            /\ calls' = Append(calls, [lang |-> "eng+hin", outcome |-> Returned(t)])
            /\ text' = t
            /\ IF Len(strip(t)) = 0
                 THEN pc' = "recognize_secondary" /\ UNCHANGED ocr_source
                 ELSE pc' = "classify" /\ ocr_source' = "tesseract"
       \/ \E e \in EngineErrors :
            /\ calls' = Append(calls, [lang |-> "eng+hin", outcome |-> "fault"])
            /\ text' = FallbackText(e)
            /\ ocr_source' = "fallback"
            /\ pc' = "classify"
    /\ UNCHANGED <<TESSERACT_AVAILABLE, image_file, image, doc_type, confidence,
                   structured_data, result>>

\* RecognizeSecondary as a loop: the reduced-language pass is repeated while
\* it returns no text
RecognizeSecondary_Retry ==
    /\ pc = "recognize_secondary"
    /\ \/ \E t \in EngineTexts :
            /\ calls' = Append(calls, [lang |-> "eng", outcome |-> Returned(t)])
            /\ text' = t
            /\ IF Len(strip(t)) = 0
                 THEN pc' = "recognize_secondary" /\ UNCHANGED ocr_source
                 ELSE pc' = "classify" /\ ocr_source' = "tesseract"
       \/ \E e \in EngineErrors :
            /\ calls' = Append(calls, [lang |-> "eng", outcome |-> "fault"])
            /\ text' = FallbackText(e)
            /\ ocr_source' = "fallback"
            /\ pc' = "classify"
    /\ UNCHANGED <<TESSERACT_AVAILABLE, image_file, image, doc_type, confidence,
                   structured_data, result, stages>>

\* if not text.strip(): text = pytesseract.image_to_string(image, lang="eng", ...)
RecognizeSecondary ==
    /\ pc = "recognize_secondary"
    /\ \/ \E t \in EngineTexts :
            /\ calls' = Append(calls, [lang |-> "eng", outcome |-> Returned(t)])
            /\ text' = t
            /\ ocr_source' = "tesseract"
       \/ \E e \in EngineErrors :
            /\ calls' = Append(calls, [lang |-> "eng", outcome |-> "fault"])
            /\ text' = FallbackText(e)
            /\ ocr_source' = "fallback"
    /\ pc' = "classify"
    /\ UNCHANGED <<TESSERACT_AVAILABLE, image_file, image, doc_type, confidence,
                   structured_data, result, stages>>

\* any(word in text_lower for word in words)
any(text_lower, words) == \E w \in words : Contains(text_lower, w)

\* Classification with the visa branch tested before the passport branch
Classification_VisaFirst(text_lower) ==
    IF any(text_lower, { <<"v", "i", "s", "a">>, <<"e", "n", "t", "r", "y", " ", "p", "e", "r", "m", "i", "t">>, <<"i", "m", "m", "i", "g", "r", "a", "t", "i", "o", "n">> })
      THEN <<"visa", 9>>
    ELSE IF any(text_lower, { <<"p", "a", "s", "s", "p", "o", "r", "t">>, <<"r", "e", "p", "u", "b", "l", "i", "c">>, <<"t", "r", "a", "v", "e", "l", " ", "d", "o", "c", "u", "m", "e", "n", "t">> })
      THEN <<"passport", 9>>
    ELSE IF any(text_lower, { <<"w", "o", "r", "k", " ", "p", "e", "r", "m", "i", "t">>, <<"e", "m", "p", "l", "o", "y", "m", "e", "n", "t">> })
      THEN <<"permit", 8>>
    ELSE IF any(text_lower, { <<"c", "e", "r", "t", "i", "f", "i", "c", "a", "t", "e">>, <<"b", "i", "r", "t", "h">>, <<"m", "a", "r", "r", "i", "a", "g", "e">> })
      THEN <<"certificate", 8>>
    ELSE IF any(text_lower, { <<"l", "i", "c", "e", "n", "s", "e">>, <<"i", "d", "e", "n", "t", "i", "f", "i", "c", "a", "t", "i", "o", "n">> })
      THEN <<"identification", 8>>
    ELSE <<"unknown", 5>>

\* the if/elif chain: <<doc_type, confidence>>
Classification(text_lower) ==
    IF any(text_lower, { <<"p", "a", "s", "s", "p", "o", "r", "t">>, <<"r", "e", "p", "u", "b", "l", "i", "c">>, <<"t", "r", "a", "v", "e", "l", " ", "d", "o", "c", "u", "m", "e", "n", "t">> })
      THEN <<"passport", 9>>
    ELSE IF any(text_lower, { <<"v", "i", "s", "a">>, <<"e", "n", "t", "r", "y", " ", "p", "e", "r", "m", "i", "t">>, <<"i", "m", "m", "i", "g", "r", "a", "t", "i", "o", "n">> })
      THEN <<"visa", 9>>
    ELSE IF any(text_lower, { <<"w", "o", "r", "k", " ", "p", "e", "r", "m", "i", "t">>, <<"e", "m", "p", "l", "o", "y", "m", "e", "n", "t">> })
      THEN <<"permit", 8>>
    ELSE IF any(text_lower, { <<"c", "e", "r", "t", "i", "f", "i", "c", "a", "t", "e">>, <<"b", "i", "r", "t", "h">>, <<"m", "a", "r", "r", "i", "a", "g", "e">> })
      THEN <<"certificate", 8>>
    ELSE IF any(text_lower, { <<"l", "i", "c", "e", "n", "s", "e">>, <<"i", "d", "e", "n", "t", "i", "f", "i", "c", "a", "t", "i", "o", "n">> })
      THEN <<"identification", 8>>
    ELSE <<"unknown", 5>>

Classify ==
    /\ pc = "classify"
    /\ stages' = Append(stages, "classify")
    /\ doc_type' = Classification(lower(text))[1]
    /\ confidence' = Classification(lower(text))[2]
    /\ pc' = "extract"
    /\ UNCHANGED <<TESSERACT_AVAILABLE, image_file, image, text, ocr_source,
                   structured_data, result, calls>>

\* BaseRecord with the confidence of the default branch instead of the
\* classifier's
BaseRecord_DefaultConfidence(now) ==
    [document_type |-> doc_type,
     extraction_date |-> now,
     raw_text_length |-> Len(text),
     confidence |-> 5,
     ocr_source |-> ocr_source,
     tesseract_available |-> TESSERACT_AVAILABLE]

\* structured_data = {...}
BaseRecord(now) ==
    [document_type |-> doc_type,
     extraction_date |-> now,
     raw_text_length |-> Len(text),
     confidence |-> confidence,
     ocr_source |-> ocr_source,
     tesseract_available |-> TESSERACT_AVAILABLE]

\* if doc_type == "passport": ... structured_data['passport_number'] = ...
PassportField ==
    IF doc_type = "passport" /\ search("passport_number", text) # <<>>
      THEN [passport_number |-> group(text, search("passport_number", text))]
      ELSE <<>>

\* DatesField without the emptiness test
DatesField_Always == [dates_found |-> Slice(findall("date", text), 3)]

\* if dates: structured_data['dates_found'] = dates[:3]
DatesField ==
    LET dates == findall("date", text)
    IN  IF dates # <<>> THEN [dates_found |-> Slice(dates, 3)] ELSE <<>>

\* if names: structured_data['names_found'] = names[:2]
NamesField ==
    LET names == findall("name", text)
    IN  IF names # <<>> THEN [names_found |-> Slice(names, 2)] ELSE <<>>

\* if email: structured_data['email'] = email.group()
EmailField ==
    IF search("email", text) # <<>>
      THEN [email |-> group(text, search("email", text))]
      ELSE <<>>

Extract ==
    /\ pc = "extract"
    /\ stages' = Append(stages, "extract")
    /\ \E now \in Clock :
         structured_data' =
            BaseRecord(now) @@ PassportField @@ DatesField @@ NamesField @@ EmailField
    /\ pc' = "assemble"
    /\ UNCHANGED <<TESSERACT_AVAILABLE, image_file, image, text, ocr_source,
                   doc_type, confidence, result, calls>>

\* Assemble without the slice
Assemble_Uncapped ==
    /\ pc = "assemble"
    /\ stages' = Append(stages, "assemble")
    /\ result' = [success |-> TRUE,
                  document_type |-> doc_type,
                  confidence |-> confidence,
                  extracted_text |-> strip(text),
                  structured_data |-> structured_data]
    /\ pc' = "done"
    /\ UNCHANGED <<TESSERACT_AVAILABLE, image_file, image, text, ocr_source,
                   doc_type, confidence, structured_data, calls>>

\* return {"success": True, ...}
Assemble ==
    /\ pc = "assemble"
    /\ stages' = Append(stages, "assemble")
    /\ result' = [success |-> TRUE,
                  document_type |-> doc_type,
                  confidence |-> confidence,
                  extracted_text |-> Slice(strip(text), ExtractedTextCap),
                  structured_data |-> structured_data]
    /\ pc' = "done"
    /\ UNCHANGED <<TESSERACT_AVAILABLE, image_file, image, text, ocr_source,
                   doc_type, confidence, structured_data, calls>>

Next ==
    \/ Call
    \/ AcquireImage
    \/ RecognizeDemo
    \/ RecognizePrimary
    \/ RecognizeSecondary
    \/ Classify
    \/ Extract
    \/ Assemble

Spec == Init /\ [][Next]_vars

\* ------------------------------------------------------------ properties

Succeeded == pc = "done" /\ DOMAIN result # {} /\ result.success
Range(s) == {s[i] : i \in 1..Len(s)}
Recognized == "recognize" \in Range(stages)
LastCallFaulted == calls # <<>> /\ calls[Len(calls)].outcome = "fault"
HasMatch(pat, t) == \E i \in 1..Len(t) : EndAt(pat, t, i) # 0

SuccessFields == {"success", "document_type", "confidence", "extracted_text", "structured_data"}
FailureFields == {"success", "error"}

\* C1: whatever the image and the recognition outcome, the call returns a
\* result of exactly one of two shapes: success=true with document_type,
\* confidence, extracted_text and structured_data and no error, or
\* success=false with a non-empty error string and none of the others.
C1_ResultShape ==
    pc = "done" =>
        \/ DOMAIN result = SuccessFields /\ result.success = TRUE
        \/ /\ DOMAIN result = FailureFields
           /\ result.success = FALSE
           /\ Len(result.error) > 0

C1_Witness ==
    /\ pc = "done"
    /\ image_file = "truncated"
    /\ DOMAIN result = FailureFields

NoTextError == <<"N", "o", " ", "t", "e", "x", "t", " ", "c", "o", "u", "l", "d", " ", "b", "e", " ", "e", "x", "t", "r", "a", "c", "t", "e", "d", " ", "f", "r", "o", "m", " ", "t", "h", "e", " ", "i", "m", "a", "g", "e">>

\* C2: when the engine is available and the last recognition pass returned
\* empty or whitespace-only text, the result is success=false with the error
\* "No text could be extracted from the image" and nothing is classified.
C2_EmptyTextIsAnError ==
    (pc = "done" /\ calls # <<>> /\ calls[Len(calls)].outcome = "empty") =>
        /\ DOMAIN result = FailureFields
        /\ result.error = NoTextError

\* the rule table of the specification, in its order
SpecRules ==
    << [type |-> "passport", words |-> { <<"p", "a", "s", "s", "p", "o", "r", "t">>, <<"r", "e", "p", "u", "b", "l", "i", "c">>, <<"t", "r", "a", "v", "e", "l", " ", "d", "o", "c", "u", "m", "e", "n", "t">> }],
       [type |-> "visa", words |-> { <<"v", "i", "s", "a">>, <<"e", "n", "t", "r", "y", " ", "p", "e", "r", "m", "i", "t">>, <<"i", "m", "m", "i", "g", "r", "a", "t", "i", "o", "n">> }],
       [type |-> "permit", words |-> { <<"w", "o", "r", "k", " ", "p", "e", "r", "m", "i", "t">>, <<"e", "m", "p", "l", "o", "y", "m", "e", "n", "t">> }],
       [type |-> "certificate", words |-> { <<"c", "e", "r", "t", "i", "f", "i", "c", "a", "t", "e">>, <<"b", "i", "r", "t", "h">>, <<"m", "a", "r", "r", "i", "a", "g", "e">> }],
       [type |-> "identification", words |-> { <<"l", "i", "c", "e", "n", "s", "e">>, <<"i", "d", "e", "n", "t", "i", "f", "i", "c", "a", "t", "i", "o", "n">> }] >>

RuleHits(t) ==
    {k \in 1..Len(SpecRules) : \E w \in SpecRules[k].words : Contains(lower(t), w)}

FirstRuleType(t) ==
    IF RuleHits(t) = {} THEN "unknown" ELSE SpecRules[FirstIn(RuleHits(t))].type

\* C3: the document_type of a successful result is the type of the first
\* rule, in the order passport, visa, permit, certificate, identification,
\* one of whose keywords occurs in the lower-cased text, and unknown when no
\* rule matches; a text with both "passport" and "visa" is a passport.
C3_FirstMatchWins ==
    Succeeded =>
        /\ result.document_type = FirstRuleType(text)
        /\ (Contains(lower(text), <<"p", "a", "s", "s", "p", "o", "r", "t">>) /\ Contains(lower(text), <<"v", "i", "s", "a">>))
              => result.document_type = "passport"

C3_Witness ==
    /\ Succeeded
    /\ Contains(lower(text), <<"p", "a", "s", "s", "p", "o", "r", "t">>)
    /\ Contains(lower(text), <<"v", "i", "s", "a">>)
    /\ result.document_type = "passport"

\* C4: in a successful result passport_number is present exactly when
\* document_type is passport and its pattern matches, visa_number exactly when
\* document_type is visa and its pattern matches, and each holds the first
\* match.
C4_IdentifierFields ==
    Succeeded =>
        LET sd == result.structured_data
        IN  /\ "passport_number" \in DOMAIN sd
                 <=> (result.document_type = "passport" /\ HasMatch("passport_number", text))
            /\ "passport_number" \in DOMAIN sd
                 => sd.passport_number = group(text, search("passport_number", text))
            /\ "visa_number" \in DOMAIN sd
                 <=> (result.document_type = "visa" /\ HasMatch("visa_number", text))
            /\ "visa_number" \in DOMAIN sd
                 => sd.visa_number = group(text, search("visa_number", text))

ConfidenceTable ==
    [passport |-> 9, visa |-> 9, permit |-> 8, certificate |-> 8,
     identification |-> 8, unknown |-> 5]

\* C5: in a successful result confidence is the table's value for the
\* document_type (0.9, 0.8 or 0.5), and structured_data carries the same
\* document_type and confidence as the top level.
C5_ConfidenceByType ==
    Succeeded =>
        /\ result.document_type \in DOMAIN ConfidenceTable
        /\ result.confidence = ConfidenceTable[result.document_type]
        /\ result.confidence \in {9, 8, 5}
        /\ result.structured_data.confidence = result.confidence
        /\ result.structured_data.document_type = result.document_type

C5_Witness ==
    /\ Succeeded
    /\ result.document_type = "identification"
    /\ result.confidence = 8
    /\ result.structured_data.confidence = 8

\* C6: in a successful result extracted_text has at most 2000 characters,
\* raw_text_length is the length of the whole recognized text, and the
\* classification and the extraction see the whole text: a keyword or a date
\* past the cap still decides document_type and dates_found.
C6_CapOnOutputOnly ==
    Succeeded =>
        /\ Len(result.extracted_text) <= 2000
        /\ result.structured_data.raw_text_length = Len(text)
        /\ RuleHits(text) # {} => result.document_type # "unknown"
        /\ HasMatch("date", text) => "dates_found" \in DOMAIN result.structured_data

C6_Witness ==
    /\ Succeeded
    /\ Len(text) > 2000
    /\ Len(result.extracted_text) = 2000
    /\ result.structured_data.raw_text_length > 2000
    /\ result.document_type = "visa"
    /\ ~Contains(lower(result.extracted_text), <<"v", "i", "s", "a">>)

ListField(field, pat, cap) ==
    LET sd == result.structured_data
    IN  /\ field \in DOMAIN sd <=> HasMatch(pat, text)
        /\ field \in DOMAIN sd =>
             /\ Len(sd[field]) \in 1..cap
             /\ sd[field] = SubSeq(findall(pat, text), 1, Len(sd[field]))
             /\ Len(sd[field]) < cap => Len(findall(pat, text)) = Len(sd[field])
             /\ sd[field][1] = group(text, search(pat, text))

\* C7: in a successful result dates_found is absent exactly when the date
\* pattern has no match and is otherwise the first matches, at least one and
\* at most 3, in their order in the text; names_found likewise with at most 2.
C7_ListFields ==
    Succeeded =>
        /\ ListField("dates_found", "date", 3)
        /\ ListField("names_found", "name", 2)

C7_Witness ==
    /\ Succeeded
    /\ Len(findall("date", text)) > 3
    /\ Len(result.structured_data.dates_found) = 3
    /\ Len(findall("name", text)) > 2
    /\ Len(result.structured_data.names_found) = 2

C9_ProvenanceTags ==
    Succeeded =>
        LET tag == result.structured_data.ocr_source
        IN  /\ tag = "demo" <=> ~TESSERACT_AVAILABLE
            /\ ~TESSERACT_AVAILABLE => calls = <<>>
            /\ tag = "fallback" <=> LastCallFaulted
            /\ tag = "ocr-secondary" <=> (Len(calls) = 2 /\ ~LastCallFaulted)
            /\ tag = "tesseract" => (Len(calls) = 1 /\ calls[1].outcome = "text")

Rank(stage) ==
    CASE stage = "acquire" -> 1
      [] stage = "recognize" -> 2
      [] stage = "classify" -> 3
      [] stage = "extract" -> 4
      [] stage = "assemble" -> 5

\* C10: within one request the stages run in the order acquire, recognize,
\* classify, extract, assemble and none runs twice; the engine is called at
\* most twice, only during recognition, the second call only after a first
\* call that returned empty text, and a faulting call is the last one.
C10_ForwardOnly ==
    /\ \A i, j \in 1..Len(stages) : i < j => Rank(stages[i]) < Rank(stages[j])
    /\ Len(calls) <= 2
    /\ calls # <<>> => (Recognized /\ TESSERACT_AVAILABLE /\ calls[1].lang = "eng+hin")
    /\ Len(calls) = 2 => (calls[1].outcome = "empty" /\ calls[2].lang = "eng")
    /\ \A i \in 1..Len(calls) : calls[i].outcome = "fault" => i = Len(calls)
    /\ pc = "recognize_secondary" <=>
         (Len(calls) = 1 /\ calls[1].outcome = "empty" /\ Len(stages) = 2)

C10_Witness ==
    /\ pc = "done"
    /\ Len(calls) = 2
    /\ calls[2].outcome = "text"
    /\ stages = <<"acquire", "recognize", "classify", "extract", "assemble">>

====
